---- MODULE Spec2Model ----
(***************************************************************************)
(* Model of the StrangeAttractors demo family: a background simulation     *)
(* thread recomputes a particle list every tick and hands it to the Vrui   *)
(* frame thread through a Threads::TripleBuffer; the frame thread's seed   *)
(* tool injects particles through a Threads::RingBuffer.                   *)
(*                                                                         *)
(* Threads::TripleBuffer, Threads::RingBuffer and Threads::Thread are      *)
(* library classes whose code is not part of the source tree; they are     *)
(* modelled from sections 3, 4.1, 4.2, 4.4 and 5 of the specification.     *)
(* Everything else is translated from src/StrangeAttractors.cpp, and the   *)
(* variant without expiry and injection from src/StrangeAttractorsArray.cpp*)
(***************************************************************************)
EXTENDS Integers, Sequences, FiniteSets, TLC

(***************************************************************************)
(* Bounds of the model                                                     *)
(***************************************************************************)
\* number of ticks the simulation thread performs
MaxTicks == 2
\* number of frames in which the seed tool's button is down
MaxSeeds == 3
\* number of times the Vrui application time advances
MaxTimeSteps == 1
\* capacity of the ring buffer in the model (the demos construct it with 100)
RingBufferSize == 2
\* number of particles the constructor creates (the demos create 100)
initParticleSize == 1

(***************************************************************************)
(* Program constants                                                       *)
(***************************************************************************)
\* timeDecay(10): lifespan of a particle, in seconds
timeDecay == 10
\* the application time advances by one lifespan between two frames
TimeStep == timeDecay
\* fixed-point scale of positions: 1000 units are 1.0f
Scale == 1000
\* float s = 10
s == 10
\* float r = 28, in fixed point
r == 28 * Scale
\* float b = 2.667, in fixed point
b == 2667
\* float t = 0.003, in fixed point
t == 3

Slots == 0..2
NoSlot == 3

(***************************************************************************)
(* Arithmetic helpers                                                      *)
(***************************************************************************)
\* integer division truncating toward zero, as a C++ conversion does
TruncDiv(a, d) == IF a >= 0 THEN a \div d ELSE -((-a) \div d)

\* division rounding to the nearest integer (fixed-point product rescaling)
RoundDiv(a, d) == IF a >= 0 THEN (2 * a + d) \div (2 * d)
                            ELSE -((2 * (-a) + d) \div (2 * d))

(***************************************************************************)
(* Particles                                                               *)
(***************************************************************************)
\* ParticleVertex: a colour (4 GLubyte) and a position (3 float)
ParticleVertex(pos, col) == [position |-> pos, color |-> col]

\* the positions and colours the constructor's random draws are taken from
InitParticles ==
    { ParticleVertex(<<1000, 1000, 1000>>, <<64, 65, 66, 255>>) }

\* the particles the seed tool's random draws are taken from
SeedParticles ==
    { ParticleVertex(<<3000, -1000, 2000>>, <<32, 33, 34, 255>>),
      ParticleVertex(<<-1000, 2000, 0>>, <<200, 32, 100, 255>>) }

\* positions a particle can have: the constructor's draws from [-20,20)
\* and points near the attractor
UpdatePositions ==
    { <<1000, 1000, 1000>>, <<3000, -1000, 2000>>, <<-1000, 2000, 0>>,
      <<-8000, 7000, 27000>>, <<20000, -20000, 19000>>, <<0, 0, 0>> }

\* colours a particle can have in the course of its fade
UpdateColors ==
    { <<64, 65, 66, 255>>, <<33, 1, 40, 255>>, <<1, 0, 40, 255>>,
      <<0, 0, 2, 255>>, <<0, 0, 1, 255>>, <<0, 0, 0, 255>> }

\* the particles updateMesh is applied to when it is examined on its own
UpdateInputs ==
    { ParticleVertex(pos, col) : pos \in UpdatePositions, col \in UpdateColors }

\* a default-constructed ParticleTimeList (two empty vectors); gen is the
\* snapshot's generation of section 3, 0 for a slot holding no snapshot
EmptyParticleTimeList == [particleList |-> <<>>, timeList |-> <<>>, gen |-> 0]

\* SubTenth as a subtraction of one modulo 256
SubTenthWrap(c) == (c - 1) % 256

\* pv.color[i] -= .1 on a GLubyte: the difference is truncated toward zero
SubTenth(c) == TruncDiv(c * 10 - 1, 10)

\* FadeColor lowering every channel that is positive
FadeColorAll(col) ==
    [k \in 1..4 |-> IF k < 4 /\ col[k] > 0 THEN SubTenth(col[k]) ELSE col[k]]

\* the colour update of updateMesh: green, else red, else blue
FadeColor(col) ==
    IF col[2] > 0 THEN [col EXCEPT ![2] = SubTenth(col[2])]
    ELSE IF col[1] > 0 THEN [col EXCEPT ![1] = SubTenth(col[1])]
    ELSE [col EXCEPT ![3] = SubTenth(col[3])]

\* the change at each time step for the Lorenz attractor system
LorenzDot(p) ==
    << s * (p[2] - p[1]),
       RoundDiv(p[1] * (r - p[3]), Scale) - p[2],
       RoundDiv(p[1] * p[2], Scale) - RoundDiv(b * p[3], Scale) >>

\* LorenzStep computing each derivative from the components already stepped
LorenzStepSequential(p) ==
    LET x == p[1] + RoundDiv(LorenzDot(p)[1] * t, Scale)
        y == p[2] + RoundDiv(LorenzDot(<<x, p[2], p[3]>>)[2] * t, Scale)
        z == p[3] + RoundDiv(LorenzDot(<<x, y, p[3]>>)[3] * t, Scale)
    IN  <<x, y, z>>

\* pv.position += dot*t
LorenzStep(p) ==
    LET dot == LorenzDot(p)
    IN  << p[1] + RoundDiv(dot[1] * t, Scale),
           p[2] + RoundDiv(dot[2] * t, Scale),
           p[3] + RoundDiv(dot[3] * t, Scale) >>

\* the body of updateMesh's loop for one surviving particle
UpdateParticle(pv) == ParticleVertex(LorenzStep(pv.position), FadeColor(pv.color))

(***************************************************************************)
(* Threads::TripleBuffer (specification section 4.1)                       *)
(***************************************************************************)
\* a new channel: three default-constructed slots, one per role
TripleBufferInit ==
    [buffer |-> [i \in Slots |-> EmptyParticleTimeList],
     write |-> 0, posted |-> 1, read |-> 2, fresh |-> FALSE]

\* start_write: the producer's private write slot
StartNewValue(tb) == tb.write

\* PostNewValue leaving the write role on the slot it publishes
PostNewValueKeep(tb) == [tb EXCEPT !.posted = tb.write, !.fresh = TRUE]

\* PostNewValue taking the consumer's slot as the next write slot
PostNewValueToRead(tb) ==
    [tb EXCEPT !.posted = tb.write, !.write = tb.read, !.fresh = TRUE]

\* commit_write: one atomic exchange of the write and the posted role
PostNewValue(tb) ==
    [tb EXCEPT !.posted = tb.write, !.write = tb.posted, !.fresh = TRUE]

\* LockResult reporting a new value on every call
LockResultAlways(tb) == TRUE

\* try_acquire_latest: the result
LockResult(tb) == tb.fresh

\* LockNewValue handing the posted role to the producer's write slot
LockNewValueTakesWrite(tb) ==
    IF tb.fresh
    THEN [tb EXCEPT !.read = tb.posted, !.posted = tb.write, !.write = tb.read,
                    !.fresh = FALSE]
    ELSE tb

\* try_acquire_latest: one atomic exchange of the read and the posted role
\* when a newer value was posted, nothing otherwise
LockNewValue(tb) ==
    IF tb.fresh
    THEN [tb EXCEPT !.read = tb.posted, !.posted = tb.read, !.fresh = FALSE]
    ELSE tb

\* read: the slot the consumer holds
GetLockedValue(tb) == tb.read

(***************************************************************************)
(* Threads::RingBuffer (specification section 4.2)                         *)
(***************************************************************************)
NoItem == [position |-> <<>>, color |-> <<>>]

RingBufferInit(capacity) ==
    [buf |-> [i \in 0..(capacity - 1) |-> NoItem],
     capacity |-> capacity, head |-> 0, tail |-> 0, count |-> 0]

RingEmpty(rb) == rb.count = 0

RingFull(rb) == rb.count = rb.capacity

\* push: the outcome reported to the caller
RingWriteOk(rb) == ~RingFull(rb)

\* RingWrite without the check for a full buffer
RingWriteOverwrite(rb, item) ==
    [rb EXCEPT !.buf[rb.tail] = item,
               !.tail = (rb.tail + 1) % rb.capacity,
               !.count = rb.count + 1]

\* RingWrite making room on a full buffer by discarding the head item
RingWriteDropOldest(rb, item) ==
    IF RingFull(rb)
    THEN [rb EXCEPT !.buf[rb.tail] = item,
                    !.tail = (rb.tail + 1) % rb.capacity,
                    !.head = (rb.head + 1) % rb.capacity]
    ELSE [rb EXCEPT !.buf[rb.tail] = item,
                    !.tail = (rb.tail + 1) % rb.capacity,
                    !.count = rb.count + 1]

\* push: enqueue at the tail if capacity allows, else leave the queue alone
RingWrite(rb, item) ==
    IF RingFull(rb) THEN rb
    ELSE [rb EXCEPT !.buf[rb.tail] = item,
                    !.tail = (rb.tail + 1) % rb.capacity,
                    !.count = rb.count + 1]

\* pop: the head item
RingFront(rb) == rb.buf[rb.head]

\* RingRead leaving the head index where it is
RingReadNoAdvance(rb) ==
    IF RingEmpty(rb) THEN rb
    ELSE [rb EXCEPT !.count = rb.count - 1]

\* RingRead without the check for an empty buffer
RingReadUnchecked(rb) ==
    [rb EXCEPT !.buf[rb.head] = NoItem,
               !.head = (rb.head + 1) % rb.capacity,
               !.count = rb.count - 1]

\* pop: the queue after the head item was moved out
RingRead(rb) ==
    IF RingEmpty(rb) THEN rb
    ELSE [rb EXCEPT !.buf[rb.head] = NoItem,
                    !.head = (rb.head + 1) % rb.capacity,
                    !.count = rb.count - 1]

\* the queued items, head first
RingContents(rb) ==
    [i \in 1..rb.count |-> rb.buf[(rb.head + i - 1) % rb.capacity]]

(***************************************************************************)
(* State                                                                   *)
(***************************************************************************)
VARIABLES
    particleVertices,   \* the triple buffer of ParticleTimeList
    inputParticles,     \* the ring buffer of seeded particles
    oldParticleList,    \* slot oldParticleList / oldTimeList point into
    thisParticleTimeList, \* slot the thread method's reference is bound to
    pc,                 \* position of the background thread in its loop
    it,                 \* oldParticleListIt / oldTimeListIt, as an index
    appTime,            \* Vrui::getApplicationTime()
    vertexSource,       \* slot vertexBuffer's source points into
    ticks,              \* commits performed by the background thread
    seeds,              \* frames in which the seed tool wrote a particle
    timeSteps,          \* advances of the application time
    committed,          \* history: generations posted, in order
    observed,           \* history: generations locked by frame, in order
    lockedCopy,         \* history: content of the locked slot when locked
    postedSinceLock,    \* history: a post happened since the last lock
    pushed,             \* history: items accepted by the ring buffer
    popped,             \* history: items read from the ring buffer
    drained,            \* history: items read by the current tick's drain
    shutdown            \* position of the destructor: none, cancel, joined

simVars == <<oldParticleList, thisParticleTimeList, pc, it, ticks>>
frameVars == <<vertexSource>>
toolVars == <<seeds>>
clockVars == <<appTime, timeSteps>>
lockHist == <<observed, lockedCopy>>
queueHist == <<pushed, popped>>

vars == <<particleVertices, inputParticles, simVars, frameVars, toolVars,
          clockVars, committed, postedSinceLock, lockHist, queueHist, drained,
          shutdown>>

(***************************************************************************)
(* Construction                                                            *)
(***************************************************************************)
\* the ParticleTimeList the constructor fills: initParticleSize particles
\* expiring timeDecay after the application time of their creation
InitialList(ps, now) ==
    [particleList |-> ps,
     timeList |-> [i \in 1..Len(ps) |-> now + timeDecay],
     gen |-> 1]

\* Constructed without the postNewValue of the constructor
ConstructedNoPost(ps) ==
    LET tb0 == TripleBufferInit
        slot == StartNewValue(tb0)
    IN  [tb0 EXCEPT !.buffer[slot] = InitialList(ps, 0)]

\* the triple buffer when the constructor returns: the initial list was
\* written into the slot of startNewValue and posted
Constructed(ps) ==
    LET tb0 == TripleBufferInit
        slot == StartNewValue(tb0)
        tb1 == [tb0 EXCEPT !.buffer[slot] = InitialList(ps, 0)]
    IN  PostNewValue(tb1)

\* the state when the constructor returns, the triple buffer aside
InitRest ==
        /\ inputParticles = RingBufferInit(RingBufferSize)
        /\ oldParticleList = StartNewValue(TripleBufferInit)
        /\ thisParticleTimeList = StartNewValue(TripleBufferInit)
        /\ pc = "usleep"
        /\ it = 1
        /\ appTime = 0
        /\ vertexSource = NoSlot
        /\ ticks = 0
        /\ seeds = 0
        /\ timeSteps = 0
        /\ committed = <<1>>
        /\ observed = <<>>
        /\ lockedCopy = EmptyParticleTimeList
        /\ postedSinceLock = TRUE
        /\ pushed = <<>>
        /\ popped = <<>>
        /\ drained = <<>>
        /\ shutdown = "none"

\* the state when the constructor returns, its particles drawn from set
InitWith(set) ==
    \E ps \in [1..initParticleSize -> set] :
        /\ particleVertices = Constructed(ps)
        /\ InitRest

Init == InitWith(InitParticles)

(***************************************************************************)
(* The background thread: strangeAttractorsThreadMethod and updateMesh     *)
(***************************************************************************)
\* the slot oldParticleList and oldTimeList are read from
OldList == particleVertices.buffer[oldParticleList]

\* the slot updateMesh writes into
ThisList == particleVertices.buffer[thisParticleTimeList]

\* where the for loop stands with its iterator at index i of a list of n
LoopOrDrain(i, n) == IF i <= n THEN "loop" ELSE "drain"

\* StartTick with updateMesh writing into the list it reads from
StartTickInPlace ==
    /\ pc = "usleep"
    /\ shutdown = "none"
    /\ ticks < MaxTicks
    /\ thisParticleTimeList' = oldParticleList
    /\ particleVertices' =
         [particleVertices EXCEPT
            !.buffer[thisParticleTimeList'] = EmptyParticleTimeList]
    /\ it' = 1
    /\ pc' = LoopOrDrain(1, Len(particleVertices'.buffer[oldParticleList].particleList))
    /\ drained' = <<>>
    /\ UNCHANGED <<shutdown, inputParticles, oldParticleList, ticks, frameVars, toolVars,
                   clockVars, committed, postedSinceLock, lockHist, queueHist>>

\* StartTick without the call of startNewValue: the reference stays bound
\* to the slot of the previous tick
StartTickNoStart ==
    /\ pc = "usleep"
    /\ shutdown = "none"
    /\ ticks < MaxTicks
    /\ thisParticleTimeList' = thisParticleTimeList
    /\ particleVertices' =
         [particleVertices EXCEPT
            !.buffer[thisParticleTimeList'] = EmptyParticleTimeList]
    /\ it' = 1
    /\ pc' = LoopOrDrain(1, Len(particleVertices'.buffer[oldParticleList].particleList))
    /\ drained' = <<>>
    /\ UNCHANGED <<shutdown, inputParticles, oldParticleList, ticks, frameVars, toolVars,
                   clockVars, committed, postedSinceLock, lockHist, queueHist>>

\* StartTick waiting until frame has locked the value posted last
StartTickWaits ==
    /\ pc = "usleep"
    /\ shutdown = "none"
    /\ ticks < MaxTicks
    /\ ~particleVertices.fresh
    /\ thisParticleTimeList' = StartNewValue(particleVertices)
    /\ particleVertices' =
         [particleVertices EXCEPT
            !.buffer[thisParticleTimeList'] = EmptyParticleTimeList]
    /\ it' = 1
    /\ pc' = LoopOrDrain(1, Len(particleVertices'.buffer[oldParticleList].particleList))
    /\ drained' = <<>>
    /\ UNCHANGED <<shutdown, inputParticles, oldParticleList, ticks, frameVars, toolVars,
                   clockVars, committed, postedSinceLock, lockHist, queueHist>>

\* StartTick without the clear() of the two vectors
StartTickNoClear ==
    /\ pc = "usleep"
    /\ shutdown = "none"
    /\ ticks < MaxTicks
    /\ thisParticleTimeList' = StartNewValue(particleVertices)
    /\ particleVertices' = particleVertices
    /\ it' = 1
    /\ pc' = LoopOrDrain(1, Len(particleVertices'.buffer[oldParticleList].particleList))
    /\ drained' = <<>>
    /\ UNCHANGED <<shutdown, inputParticles, oldParticleList, ticks, frameVars, toolVars,
                   clockVars, committed, postedSinceLock, lockHist, queueHist>>

\* StartTick taking the list frame has locked as the input of updateMesh
StartTickFromLocked ==
    /\ pc = "usleep"
    /\ shutdown = "none"
    /\ ticks < MaxTicks
    /\ thisParticleTimeList' = StartNewValue(particleVertices)
    /\ particleVertices' =
         [particleVertices EXCEPT
            !.buffer[thisParticleTimeList'] = EmptyParticleTimeList]
    /\ oldParticleList' =
         IF vertexSource # NoSlot THEN GetLockedValue(particleVertices)
         ELSE oldParticleList
    /\ it' = 1
    /\ pc' = LoopOrDrain(1, Len(particleVertices'.buffer[oldParticleList'].particleList))
    /\ drained' = <<>>
    /\ UNCHANGED <<shutdown, inputParticles, ticks, frameVars, toolVars,
                   clockVars, committed, postedSinceLock, lockHist, queueHist>>

\* usleep returns without the thread having been cancelled, startNewValue
\* binds thisParticleTimeList, updateMesh clears its two vectors and sets
\* the iterators to begin()
StartTick ==
    /\ pc = "usleep"
    /\ shutdown = "none"
    /\ ticks < MaxTicks
    /\ thisParticleTimeList' = StartNewValue(particleVertices)
    /\ particleVertices' =
         [particleVertices EXCEPT
            !.buffer[thisParticleTimeList'] = EmptyParticleTimeList]
    /\ it' = 1
    /\ pc' = LoopOrDrain(1, Len(particleVertices'.buffer[oldParticleList].particleList))
    /\ drained' = <<>>
    /\ UNCHANGED <<shutdown, inputParticles, oldParticleList, ticks, frameVars, toolVars,
                   clockVars, committed, postedSinceLock, lockHist, queueHist>>

\* LoopStep storing the updated particle back into the list it came from
LoopStepInPlace ==
    /\ pc = "loop"
    /\ LET tp == OldList.timeList[it]
           pv == UpdateParticle(OldList.particleList[it])
       IN  particleVertices' =
             IF tp > appTime
             THEN [particleVertices EXCEPT
                     !.buffer[oldParticleList].particleList[it] = pv,
                     !.buffer[thisParticleTimeList].particleList = Append(@, pv),
                     !.buffer[thisParticleTimeList].timeList = Append(@, tp)]
             ELSE particleVertices
    /\ it' = it + 1
    /\ pc' = LoopOrDrain(it', Len(particleVertices'.buffer[oldParticleList].particleList))
    /\ UNCHANGED <<shutdown, drained, inputParticles, oldParticleList, thisParticleTimeList, ticks,
                   frameVars, toolVars, clockVars, committed, postedSinceLock,
                   lockHist, queueHist>>

\* LoopStep carrying a particle over on the tick that samples its expiry
LoopStepKeepsExpired ==
    /\ pc = "loop"
    /\ LET tp == OldList.timeList[it]
           pv == UpdateParticle(OldList.particleList[it])
       IN  particleVertices' =
             IF tp >= appTime
             THEN [particleVertices EXCEPT
                     !.buffer[thisParticleTimeList].particleList = Append(@, pv),
                     !.buffer[thisParticleTimeList].timeList = Append(@, tp)]
             ELSE particleVertices
    /\ it' = it + 1
    /\ pc' = LoopOrDrain(it', Len(particleVertices'.buffer[oldParticleList].particleList))
    /\ UNCHANGED <<shutdown, drained, inputParticles, oldParticleList, thisParticleTimeList, ticks,
                   frameVars, toolVars, clockVars, committed, postedSinceLock,
                   lockHist, queueHist>>

\* LoopStep without the test of the expiry, as in the variant that only
\* injects (src/StrangeAttractorsInputP2.cpp)
LoopStepNoExpiry ==
    /\ pc = "loop"
    /\ LET tp == OldList.timeList[it]
           pv == UpdateParticle(OldList.particleList[it])
       IN  particleVertices' =
             [particleVertices EXCEPT
                !.buffer[thisParticleTimeList].particleList = Append(@, pv),
                !.buffer[thisParticleTimeList].timeList = Append(@, tp)]
    /\ it' = it + 1
    /\ pc' = LoopOrDrain(it', Len(particleVertices'.buffer[oldParticleList].particleList))
    /\ UNCHANGED <<shutdown, drained, inputParticles, oldParticleList,
                   thisParticleTimeList, ticks, frameVars, toolVars, clockVars,
                   committed, postedSinceLock, lockHist, queueHist>>

\* LoopStep giving a carried particle a new expiry, timeDecay from now
LoopStepRenews ==
    /\ pc = "loop"
    /\ LET tp == OldList.timeList[it]
           pv == UpdateParticle(OldList.particleList[it])
       IN  particleVertices' =
             IF tp > appTime
             THEN [particleVertices EXCEPT
                     !.buffer[thisParticleTimeList].particleList = Append(@, pv),
                     !.buffer[thisParticleTimeList].timeList =
                         Append(@, appTime + timeDecay)]
             ELSE particleVertices
    /\ it' = it + 1
    /\ pc' = LoopOrDrain(it', Len(particleVertices'.buffer[oldParticleList].particleList))
    /\ UNCHANGED <<shutdown, drained, inputParticles, oldParticleList,
                   thisParticleTimeList, ticks, frameVars, toolVars, clockVars,
                   committed, postedSinceLock, lockHist, queueHist>>

\* one iteration of the for loop: a particle whose expiry is later than the
\* application time is integrated, faded and carried over with its expiry
LoopStep ==
    /\ pc = "loop"
    /\ LET tp == OldList.timeList[it]
           pv == UpdateParticle(OldList.particleList[it])
       IN  particleVertices' =
             IF tp > appTime
             THEN [particleVertices EXCEPT
                     !.buffer[thisParticleTimeList].particleList = Append(@, pv),
                     !.buffer[thisParticleTimeList].timeList = Append(@, tp)]
             ELSE particleVertices
    /\ it' = it + 1
    /\ pc' = LoopOrDrain(it', Len(particleVertices'.buffer[oldParticleList].particleList))
    /\ UNCHANGED <<shutdown, drained, inputParticles, oldParticleList, thisParticleTimeList, ticks,
                   frameVars, toolVars, clockVars, committed, postedSinceLock,
                   lockHist, queueHist>>

\* DrainCheck entering the loop body without the test of empty()
DrainCheckBlind ==
    /\ pc = "drain"
    /\ pc' = "read"
    /\ UNCHANGED <<shutdown, drained, particleVertices, inputParticles, oldParticleList,
                   thisParticleTimeList, it, ticks, frameVars, toolVars, clockVars,
                   committed, postedSinceLock, lockHist, queueHist>>

\* while(!inputParticles.empty()): the queue holds an item
DrainCheck ==
    /\ pc = "drain"
    /\ ~RingEmpty(inputParticles)
    /\ pc' = "read"
    /\ UNCHANGED <<shutdown, drained, particleVertices, inputParticles, oldParticleList,
                   thisParticleTimeList, it, ticks, frameVars, toolVars, clockVars,
                   committed, postedSinceLock, lockHist, queueHist>>

\* DrainRead integrating and fading the item it read
DrainReadIntegrates ==
    /\ pc = "read"
    /\ particleVertices' =
         [particleVertices EXCEPT
            !.buffer[thisParticleTimeList].particleList =
                Append(@, UpdateParticle(RingFront(inputParticles))),
            !.buffer[thisParticleTimeList].timeList = Append(@, appTime + timeDecay)]
    /\ inputParticles' = RingRead(inputParticles)
    /\ popped' = Append(popped, RingFront(inputParticles))
    /\ pc' = "drain"
    /\ drained' = Append(drained, RingFront(inputParticles))
    /\ UNCHANGED <<shutdown, oldParticleList, thisParticleTimeList, it, ticks, frameVars,
                   toolVars, clockVars, committed, postedSinceLock, lockHist, pushed>>

\* DrainRead without the push_back on the time list
DrainReadNoTime ==
    /\ pc = "read"
    /\ particleVertices' =
         [particleVertices EXCEPT
            !.buffer[thisParticleTimeList].particleList =
                Append(@, RingFront(inputParticles))]
    /\ inputParticles' = RingRead(inputParticles)
    /\ popped' = Append(popped, RingFront(inputParticles))
    /\ pc' = "drain"
    /\ drained' = Append(drained, RingFront(inputParticles))
    /\ UNCHANGED <<shutdown, oldParticleList, thisParticleTimeList, it, ticks, frameVars,
                   toolVars, clockVars, committed, postedSinceLock, lockHist, pushed>>

\* the loop body: the item read is appended, expiring timeDecay from now
DrainRead ==
    /\ pc = "read"
    /\ particleVertices' =
         [particleVertices EXCEPT
            !.buffer[thisParticleTimeList].particleList =
                Append(@, RingFront(inputParticles)),
            !.buffer[thisParticleTimeList].timeList = Append(@, appTime + timeDecay)]
    /\ inputParticles' = RingRead(inputParticles)
    /\ popped' = Append(popped, RingFront(inputParticles))
    /\ pc' = "drain"
    /\ drained' = Append(drained, RingFront(inputParticles))
    /\ UNCHANGED <<shutdown, oldParticleList, thisParticleTimeList, it, ticks, frameVars,
                   toolVars, clockVars, committed, postedSinceLock, lockHist, pushed>>

\* FinishUpdate leaving the drain without having found the queue empty
FinishUpdateEarly ==
    /\ pc = "drain"
    /\ particleVertices' =
         [particleVertices EXCEPT
            !.buffer[thisParticleTimeList].gen = OldList.gen + 1]
    /\ oldParticleList' = thisParticleTimeList
    /\ pc' = "postNewValue"
    /\ UNCHANGED <<shutdown, drained, inputParticles, thisParticleTimeList, it,
                   ticks, frameVars, toolVars, clockVars, committed,
                   postedSinceLock, lockHist, queueHist>>

\* FinishUpdate without the assignments to oldParticleList and oldTimeList
FinishUpdateNoRetain ==
    /\ pc = "drain"
    /\ RingEmpty(inputParticles)
    /\ particleVertices' =
         [particleVertices EXCEPT
            !.buffer[thisParticleTimeList].gen = OldList.gen + 1]
    /\ oldParticleList' = oldParticleList
    /\ pc' = "postNewValue"
    /\ UNCHANGED <<shutdown, drained, inputParticles, thisParticleTimeList, it, ticks, frameVars,
                   toolVars, clockVars, committed, postedSinceLock, lockHist,
                   queueHist>>

\* the queue is empty: the while loop is left, oldParticleList and
\* oldTimeList are pointed at the list just written, whose generation is
\* the one after the list it was computed from
FinishUpdate ==
    /\ pc = "drain"
    /\ RingEmpty(inputParticles)
    /\ particleVertices' =
         [particleVertices EXCEPT
            !.buffer[thisParticleTimeList].gen = OldList.gen + 1]
    /\ oldParticleList' = thisParticleTimeList
    /\ pc' = "postNewValue"
    /\ UNCHANGED <<shutdown, drained, inputParticles, thisParticleTimeList, it, ticks, frameVars,
                   toolVars, clockVars, committed, postedSinceLock, lockHist,
                   queueHist>>

\* Post going on to the notification without the call of postNewValue
PostNoCommit ==
    /\ pc = "postNewValue"
    /\ ticks' = ticks + 1
    /\ pc' = "requestUpdate"
    /\ UNCHANGED <<shutdown, drained, particleVertices, inputParticles,
                   oldParticleList, thisParticleTimeList, it, frameVars, toolVars,
                   clockVars, committed, postedSinceLock, lockHist, queueHist>>

\* particleVertices.postNewValue()
Post ==
    /\ pc = "postNewValue"
    /\ particleVertices' = PostNewValue(particleVertices)
    /\ committed' =
         Append(committed, particleVertices'.buffer[particleVertices'.posted].gen)
    /\ postedSinceLock' = TRUE
    /\ ticks' = ticks + 1
    /\ pc' = "requestUpdate"
    /\ UNCHANGED <<shutdown, drained, inputParticles, oldParticleList, thisParticleTimeList, it,
                   frameVars, toolVars, clockVars, lockHist, queueHist>>

\* Vrui::requestUpdate(), then back to the top of the loop
RequestUpdate ==
    /\ pc = "requestUpdate"
    /\ pc' = "usleep"
    /\ UNCHANGED <<shutdown, drained, particleVertices, inputParticles, oldParticleList,
                   thisParticleTimeList, it, ticks, frameVars, toolVars, clockVars,
                   committed, postedSinceLock, lockHist, queueHist>>

SimThread ==
    \/ StartTick
    \/ LoopStep
    \/ DrainCheck
    \/ DrainRead
    \/ FinishUpdate
    \/ Post
    \/ RequestUpdate

(***************************************************************************)
(* The frame thread: frame, the seed tool's frame, the application clock   *)
(***************************************************************************)
\* Frame calling getLockedValue before lockNewValue
FrameStale ==
    /\ particleVertices' = LockNewValue(particleVertices)
    /\ IF LockResult(particleVertices)
       THEN /\ vertexSource' = GetLockedValue(particleVertices)
            /\ observed' =
                 Append(observed,
                        particleVertices'.buffer[GetLockedValue(particleVertices')].gen)
            /\ lockedCopy' = particleVertices'.buffer[GetLockedValue(particleVertices')]
            /\ postedSinceLock' = FALSE
       ELSE UNCHANGED <<vertexSource, observed, lockedCopy, postedSinceLock>>
    /\ UNCHANGED <<shutdown, drained, inputParticles, simVars, toolVars, clockVars, committed,
                   queueHist>>

\* frame reading the locked value whatever lockNewValue returned
FrameUnconditional ==
    /\ particleVertices' = LockNewValue(particleVertices)
    /\ vertexSource' = GetLockedValue(particleVertices')
    /\ observed' =
         Append(observed, particleVertices'.buffer[GetLockedValue(particleVertices')].gen)
    /\ lockedCopy' = particleVertices'.buffer[GetLockedValue(particleVertices')]
    /\ postedSinceLock' = FALSE
    /\ UNCHANGED <<shutdown, drained, inputParticles, simVars, toolVars, clockVars, committed,
                   queueHist>>

\* frame that locks a value only while it holds none
FrameOnce ==
    /\ particleVertices' =
         IF vertexSource = NoSlot THEN LockNewValue(particleVertices) ELSE particleVertices
    /\ IF vertexSource = NoSlot /\ LockResult(particleVertices)
       THEN /\ vertexSource' = GetLockedValue(particleVertices')
            /\ observed' =
                 Append(observed,
                        particleVertices'.buffer[GetLockedValue(particleVertices')].gen)
            /\ lockedCopy' = particleVertices'.buffer[GetLockedValue(particleVertices')]
            /\ postedSinceLock' = FALSE
       ELSE UNCHANGED <<vertexSource, observed, lockedCopy, postedSinceLock>>
    /\ UNCHANGED <<shutdown, drained, inputParticles, simVars, toolVars, clockVars, committed,
                   queueHist>>

\* StrangeAttractors::frame: when lockNewValue returns true the vertex
\* buffer is pointed at the locked value
Frame ==
    /\ particleVertices' = LockNewValue(particleVertices)
    /\ IF LockResult(particleVertices)
       THEN /\ vertexSource' = GetLockedValue(particleVertices')
            /\ observed' =
                 Append(observed,
                        particleVertices'.buffer[GetLockedValue(particleVertices')].gen)
            /\ lockedCopy' = particleVertices'.buffer[GetLockedValue(particleVertices')]
            /\ postedSinceLock' = FALSE
       ELSE UNCHANGED <<vertexSource, observed, lockedCopy, postedSinceLock>>
    /\ UNCHANGED <<shutdown, drained, inputParticles, simVars, toolVars, clockVars, committed,
                   queueHist>>

\* SeedParticlesTool::frame with the button down
ToolFrame ==
    /\ seeds < MaxSeeds
    /\ \E pv \in SeedParticles :
         /\ inputParticles' = RingWrite(inputParticles, pv)
         /\ pushed' = IF RingWriteOk(inputParticles) THEN Append(pushed, pv) ELSE pushed
    /\ seeds' = seeds + 1
    /\ UNCHANGED <<shutdown, drained, particleVertices, simVars, frameVars, clockVars, committed,
                   postedSinceLock, lockHist, popped>>

\* the application time advances between two frames
AdvanceTime ==
    /\ timeSteps < MaxTimeSteps
    /\ appTime' = appTime + TimeStep
    /\ timeSteps' = timeSteps + 1
    /\ UNCHANGED <<shutdown, drained, particleVertices, inputParticles, simVars, frameVars, toolVars,
                   committed, postedSinceLock, lockHist, queueHist>>

FrameThread ==
    \/ Frame
    \/ ToolFrame
    \/ AdvanceTime

Next ==
    \/ SimThread
    \/ FrameThread

Spec == Init /\ [][Next]_vars

\* the scheduler runs the background thread whenever it can take a step
SpecFair == Init /\ [][Next]_vars /\ WF_vars(SimThread)

(***************************************************************************)
(* Shutdown: the destructor cancels the background thread and joins it     *)
(***************************************************************************)
\* strangeAttractorsThread.cancel()
Cancel ==
    /\ shutdown = "none"
    /\ shutdown' = "cancel"
    /\ UNCHANGED <<particleVertices, inputParticles, simVars, frameVars, toolVars,
                   clockVars, committed, postedSinceLock, lockHist, queueHist,
                   drained>>

\* ThreadExit acting at any position of the loop
ThreadExitAnywhere ==
    /\ pc # "stopped"
    /\ shutdown = "cancel"
    /\ pc' = "stopped"
    /\ UNCHANGED <<particleVertices, inputParticles, oldParticleList,
                   thisParticleTimeList, it, ticks, frameVars, toolVars, clockVars,
                   committed, postedSinceLock, lockHist, queueHist, drained,
                   shutdown>>

\* ThreadExit never acting: the loop ignores the request
ThreadExitIgnored ==
    /\ FALSE
    /\ UNCHANGED vars

\* the cancelled thread leaves its loop between two ticks, at usleep
ThreadExit ==
    /\ pc = "usleep"
    /\ shutdown = "cancel"
    /\ pc' = "stopped"
    /\ UNCHANGED <<particleVertices, inputParticles, oldParticleList,
                   thisParticleTimeList, it, ticks, frameVars, toolVars, clockVars,
                   committed, postedSinceLock, lockHist, queueHist, drained,
                   shutdown>>

\* Join returning without waiting for the thread to end
JoinEarly ==
    /\ shutdown = "cancel"
    /\ shutdown' = "joined"
    /\ UNCHANGED <<particleVertices, inputParticles, simVars, frameVars, toolVars,
                   clockVars, committed, postedSinceLock, lockHist, queueHist,
                   drained>>

\* strangeAttractorsThread.join() returns once the thread has ended
Join ==
    /\ shutdown = "cancel"
    /\ pc = "stopped"
    /\ shutdown' = "joined"
    /\ UNCHANGED <<particleVertices, inputParticles, simVars, frameVars, toolVars,
                   clockVars, committed, postedSinceLock, lockHist, queueHist,
                   drained>>

\* the frame thread runs frames until the destructor is entered
FramesBeforeShutdown ==
    /\ shutdown = "none"
    /\ (Frame \/ ToolFrame)

NextStop ==
    \/ SimThread
    \/ FramesBeforeShutdown
    \/ Cancel
    \/ ThreadExit
    \/ Join

SpecStop == Init /\ [][NextStop]_vars

\* the scheduler runs the background thread and the joining destructor
\* whenever they can take a step
SpecStopFair ==
    Init /\ [][NextStop]_vars /\ WF_vars(SimThread \/ ThreadExit) /\ WF_vars(Join)

(***************************************************************************)
(* updateMesh on its own: the background thread ticking over a list of     *)
(* particles while the frame thread is idle                                *)
(***************************************************************************)
InitUpdate == InitWith(UpdateInputs)

NextUpdate ==
    \/ StartTick
    \/ LoopStep
    \/ FinishUpdate
    \/ Post
    \/ RequestUpdate

SpecUpdate == InitUpdate /\ [][NextUpdate]_vars

(***************************************************************************)
(* The variant without expiry and injection                                *)
(* (src/StrangeAttractorsArray.cpp, src/StrangeAttractors1.cpp): the       *)
(* slots hold a ParticleList only, timeList stays empty                    *)
(***************************************************************************)
\* the particles the constructor's random draws are taken from
FixedInputs ==
    { ParticleVertex(pos, col) :
        pos \in UpdatePositions,
        col \in { <<64, 65, 66, 255>>, <<32, 33, 34, 255>>, <<200, 32, 100, 255>> } }

\* the triple buffer when Animation's constructor returns
ConstructedFixed(ps) ==
    LET tb0 == TripleBufferInit
        slot == StartNewValue(tb0)
        tb1 == [tb0 EXCEPT !.buffer[slot] =
                              [particleList |-> ps, timeList |-> <<>>, gen |-> 1]]
    IN  PostNewValue(tb1)

InitFixed ==
    \E ps \in [1..initParticleSize -> FixedInputs] :
        /\ particleVertices = ConstructedFixed(ps)
        /\ InitRest

\* LoopStepFixed fading the colour as the lifecycle variant does
LoopStepFixedFading ==
    /\ pc = "loop"
    /\ particleVertices' =
         [particleVertices EXCEPT
            !.buffer[thisParticleTimeList].particleList =
                Append(@, UpdateParticle(OldList.particleList[it]))]
    /\ it' = it + 1
    /\ pc' = LoopOrDrain(it', Len(particleVertices'.buffer[oldParticleList].particleList))
    /\ UNCHANGED <<shutdown, drained, inputParticles, oldParticleList,
                   thisParticleTimeList, ticks, frameVars, toolVars, clockVars,
                   committed, postedSinceLock, lockHist, queueHist>>

\* one iteration of Animation::updateMesh's loop: the particle is stepped
\* and pushed back, its colour as it was
LoopStepFixed ==
    /\ pc = "loop"
    /\ particleVertices' =
         [particleVertices EXCEPT
            !.buffer[thisParticleTimeList].particleList =
                Append(@, ParticleVertex(LorenzStep(OldList.particleList[it].position),
                                         OldList.particleList[it].color))]
    /\ it' = it + 1
    /\ pc' = LoopOrDrain(it', Len(particleVertices'.buffer[oldParticleList].particleList))
    /\ UNCHANGED <<shutdown, drained, inputParticles, oldParticleList,
                   thisParticleTimeList, ticks, frameVars, toolVars, clockVars,
                   committed, postedSinceLock, lockHist, queueHist>>

\* the loop is left: opl = &pl
FinishUpdateFixed ==
    /\ pc = "drain"
    /\ particleVertices' =
         [particleVertices EXCEPT
            !.buffer[thisParticleTimeList].gen = OldList.gen + 1]
    /\ oldParticleList' = thisParticleTimeList
    /\ pc' = "postNewValue"
    /\ UNCHANGED <<shutdown, drained, inputParticles, thisParticleTimeList, it,
                   ticks, frameVars, toolVars, clockVars, committed,
                   postedSinceLock, lockHist, queueHist>>

NextFixed ==
    \/ StartTick
    \/ LoopStepFixed
    \/ FinishUpdateFixed
    \/ Post
    \/ RequestUpdate
    \/ Frame

SpecFixed == InitFixed /\ [][NextFixed]_vars

(***************************************************************************)
(* The life of the particles: the background thread and the seed tool      *)
(* under an application time that advances in steps shorter than a life    *)
(***************************************************************************)
\* the application time advances by half a lifespan
HalfStep == timeDecay \div 2

AdvanceHalf ==
    /\ timeSteps <= MaxTimeSteps
    /\ appTime' = appTime + HalfStep
    /\ timeSteps' = timeSteps + 1
    /\ UNCHANGED <<shutdown, drained, particleVertices, inputParticles, simVars,
                   frameVars, toolVars, committed, postedSinceLock, lockHist,
                   queueHist>>

NextLife ==
    \/ SimThread
    \/ ToolFrame
    \/ AdvanceHalf

SpecLife == Init /\ [][NextLife]_vars

\* Vrui calls frame again and again: a frame that would lock a value is
\* eventually run; the background thread may stop anywhere
SpecFrameFair == Init /\ [][Next]_vars /\ WF_vars(Frame)

(***************************************************************************)
(* The lifecycle variant while nothing is seeded: the background thread,   *)
(* frame and the clock                                                     *)
(***************************************************************************)
NextDecay ==
    \/ StartTick
    \/ LoopStep
    \/ FinishUpdate
    \/ Post
    \/ RequestUpdate
    \/ Frame
    \/ AdvanceHalf

SpecDecay == Init /\ [][NextDecay]_vars

(***************************************************************************)
(* The ring buffer under the frame thread's writes and a reader that      *)
(* reads in any state, also when the buffer is empty                       *)
(***************************************************************************)
\* inputParticles.read() by a caller that does not test empty() first
RingPopAny ==
    /\ inputParticles' = RingRead(inputParticles)
    /\ popped' = IF RingEmpty(inputParticles) THEN popped
                 ELSE Append(popped, RingFront(inputParticles))
    /\ UNCHANGED <<shutdown, drained, particleVertices, simVars, frameVars, toolVars, clockVars,
                   committed, postedSinceLock, lockHist, pushed>>

NextRing ==
    \/ FrameThread
    \/ RingPopAny

SpecRing == Init /\ [][NextRing]_vars

(***************************************************************************)
(* Properties                                                              *)
(***************************************************************************)
\* the background thread is between startNewValue and postNewValue
Writing == pc \in {"loop", "drain", "read", "postNewValue"}

\* the locked ParticleTimeList
LockedList == particleVertices.buffer[GetLockedValue(particleVertices)]

Max(a, c) == IF a >= c THEN a ELSE c

RECURSIVE SeqMax(_)
SeqMax(q) == IF q = <<>> THEN 0 ELSE Max(q[Len(q)], SeqMax(SubSeq(q, 1, Len(q) - 1)))

\* a startNewValue of the background thread awaits its postNewValue: the
\* slot bound by the thread method still has the write role
Outstanding == thisParticleTimeList = StartNewValue(particleVertices)

\* the state of the loop's life: 1 Running (started by the constructor, not
\* cancelled), 2 Stopping (cancelled, the thread still in its loop),
\* 3 Stopped (the thread has left its loop)
Lifecycle ==
    IF pc = "stopped" THEN 3
    ELSE IF shutdown = "none" THEN 1
    ELSE 2

\* the last n entries of q
Suffix(q, n) == SubSeq(q, Len(q) - n + 1, Len(q))

\* p is q with some of its entries left out
RECURSIVE IsSubseq(_, _)
IsSubseq(p, q) ==
    IF p = <<>> THEN TRUE
    ELSE IF q = <<>> THEN FALSE
    ELSE IF Head(p) = Head(q) THEN IsSubseq(Tail(p), Tail(q))
    ELSE IsSubseq(p, Tail(q))

\* the entries of a ParticleTimeList as pairs of particle and expiry
Entries(list, n) == [i \in 1..n |-> <<list.particleList[i], list.timeList[i]>>]

\* the first n entries of the previous list, each as the loop carries it over
CarriedOver(list, n) ==
    [i \in 1..n |-> <<UpdateParticle(list.particleList[i]), list.timeList[i]>>]

IsPrefix(p, q) == Len(p) <= Len(q) /\ \A i \in 1..Len(p) : p[i] = q[i]

\* the particles of list up to index n after one step of updateMesh
Stepped(list, n) == [i \in 1..n |-> UpdateParticle(list.particleList[i])]

\* Animation::updateMesh applied to a whole list
StepFixed(ps) ==
    [i \in 1..Len(ps) |-> ParticleVertex(LorenzStep(ps[i].position), ps[i].color)]

\* the list k ticks after the list ps
RECURSIVE FixedOrbit(_, _)
FixedOrbit(ps, k) == IF k = 0 THEN ps ELSE StepFixed(FixedOrbit(ps, k - 1))

\* two different initial particles differ after every number of ticks
OrbitsApart ==
    \A p, q \in FixedInputs : \A k \in 0..MaxTicks :
        FixedOrbit(<<p>>, k) = FixedOrbit(<<q>>, k) => p = q

\* C1: while the background thread writes a slot, that slot is neither the
\* slot the consumer holds locked nor the slot the vertex buffer points into
C1_WriterNotReader ==
    Writing =>
        /\ thisParticleTimeList # GetLockedValue(particleVertices)
        /\ thisParticleTimeList # vertexSource

\* C1 witness: the thread is in its second tick, writing, while frame holds
\* a locked value
C1_Witness ==
    /\ Writing
    /\ ticks = 1
    /\ vertexSource # NoSlot
    /\ Len(ThisList.particleList) > 0

\* C2: the generations frame has locked are in non-decreasing order and each
\* of them was committed
C2_ObservedOrdered ==
    /\ \A i \in 1..(Len(observed) - 1) : observed[i] <= observed[i + 1]
    /\ \A i \in 1..Len(observed) : \E j \in 1..Len(committed) : observed[i] = committed[j]

\* C2 witness: frame locked three values in a row
C2_Witness == Len(observed) = 3

\* C3: the content of the locked slot is the content it had when it was
\* locked, whatever the background thread has done since
C3_HeldUnchanged ==
    vertexSource # NoSlot =>
        /\ vertexSource = GetLockedValue(particleVertices)
        /\ LockedList = lockedCopy

\* C3 witness: the background thread completed two ticks while frame kept
\* the constructor's value locked
C3_Witness ==
    /\ observed = <<1>>
    /\ ticks = 2
    /\ pc = "requestUpdate"

\* C4: every posted generation is the previously posted generation plus
\* one, starting with the constructor's
C4_GenerationsConsecutive ==
    /\ committed[1] = 1
    /\ \A i \in 1..(Len(committed) - 1) : committed[i + 1] = committed[i] + 1

\* C4 witness: the background thread posted after a tick in which frame
\* had taken the previous value
C4_Witness ==
    /\ Len(committed) = 3
    /\ observed = <<1, 2>>

\* C5: frame's lockNewValue returns true exactly when a value was posted
\* since its last successful lock, and a call returning false leaves the
\* triple buffer as it was
C5_AcquireContract ==
    [][Frame =>
        /\ LockResult(particleVertices) = postedSinceLock
        /\ (~LockResult(particleVertices) => particleVertices' = particleVertices)
        /\ ~postedSinceLock']_vars

\* C5 witness: frame has locked a value and nothing was posted since, so
\* the next call returns false
C5_Witness ==
    /\ ~postedSinceLock
    /\ observed = <<2>>
    /\ pc = "postNewValue"

\* C6: after a successful lock the vertex buffer points at the locked
\* value, whose generation is the highest committed so far
C6_LatestWins ==
    [][(Frame /\ LockResult(particleVertices)) =>
        /\ vertexSource' = GetLockedValue(particleVertices')
        /\ particleVertices'.buffer[vertexSource'].gen = SeqMax(committed)]_vars

\* C6 witness: frame locked generation 3 after generation 1, skipping 2
C6_Witness == observed = <<1, 3>>

\* C7: the background thread completes every tick it starts and goes on
\* to the next, whatever the frame thread does or does not do
C7_ProducerProgress ==
    \A n \in 0..(MaxTicks - 1) : (ticks = n) ~> (ticks = n + 1)

\* C7 witness: all ticks were committed while frame never locked a value
C7_Witness ==
    /\ ticks = MaxTicks
    /\ observed = <<>>
    /\ vertexSource = NoSlot

\* C8: the write, posted and read roles are held by three different slots
C8_RolesPermutation ==
    /\ {particleVertices.write, particleVertices.posted, particleVertices.read} = Slots
    /\ Cardinality({particleVertices.write, particleVertices.posted,
                    particleVertices.read}) = 3

\* C8 witness: the roles have rotated away from where construction left them
C8_Witness ==
    /\ particleVertices.read = 1
    /\ particleVertices.write = 0
    /\ particleVertices.posted = 2
    /\ ticks = 2

\* C9: the items read from the ring buffer are a prefix of the items
\* written to it, and the rest of them is what the buffer holds
C9_Fifo ==
    /\ IsPrefix(popped, pushed)
    /\ pushed = popped \o RingContents(inputParticles)

\* C9 witness: three items went through the buffer of two entries, the
\* first two of them different
C9_Witness ==
    /\ Len(popped) = 3
    /\ popped[1] # popped[2]

\* C10: the number of occupied entries is between 0 and the capacity, and
\* it is the number of entries holding an item
C10_CountBounded ==
    /\ inputParticles.count \in 0..inputParticles.capacity
    /\ inputParticles.capacity = RingBufferSize
    /\ inputParticles.count =
         Cardinality({i \in DOMAIN inputParticles.buf : inputParticles.buf[i] # NoItem})

\* C10 witness: the buffer is full and the seed tool wrote once more
C10_Witness ==
    /\ RingFull(inputParticles)
    /\ seeds > Len(pushed)

C12_PopContract ==
    [][RingPopAny =>
          IF RingEmpty(inputParticles)
          THEN /\ RingFront(inputParticles) = NoItem
               /\ inputParticles' = inputParticles
               /\ popped' = popped
          ELSE /\ RingFront(inputParticles) = Head(RingContents(inputParticles))
               /\ RingFront(inputParticles) # NoItem
               /\ popped' = Append(popped, Head(RingContents(inputParticles)))
               /\ RingContents(inputParticles') = Tail(RingContents(inputParticles))
               /\ inputParticles'.count = inputParticles.count - 1]_vars

\* the only item written was read, and the buffer is empty for the next read
C12_Witness ==
    /\ Len(pushed) = 1
    /\ popped = pushed
    /\ RingEmpty(inputParticles)
    /\ inputParticles.head = inputParticles.tail

\* C13: a seeded particle read by a tick's drain is appended to the list
\* that tick posts, expiring timeDecay after the time sampled at its read;
\* every later tick carries it over, expiry unchanged, when the time it
\* samples is before the expiry and leaves it out when the sampled time is
\* at or after the expiry; the drain is left only on an empty queue
C13_SeedLifecycle ==
    /\ [](pc \in {"postNewValue", "requestUpdate", "usleep"} =>
            /\ Len(drained) <= Len(OldList.particleList)
            /\ Suffix(OldList.particleList, Len(drained)) = drained)
    /\ [][/\ DrainRead =>
               /\ RingFront(inputParticles) = pushed[Len(popped) + 1]
               /\ ThisList'.particleList =
                     Append(ThisList.particleList, RingFront(inputParticles))
               /\ ThisList'.timeList = Append(ThisList.timeList, appTime + timeDecay)
          /\ LoopStep =>
               IF OldList.timeList[it] > appTime
               THEN /\ Len(ThisList'.particleList) = Len(ThisList.particleList) + 1
                    /\ ThisList'.timeList = Append(ThisList.timeList, OldList.timeList[it])
               ELSE ThisList' = ThisList
          /\ FinishUpdate => RingEmpty(inputParticles)
          /\ Post =>
               /\ particleVertices'.posted = thisParticleTimeList
               /\ ThisList' = ThisList]_vars

\* the seeds drained by the first tick expired before the second tick
\* sampled the time: the list the second tick is about to post is empty
C13_Witness ==
    /\ pc = "postNewValue"
    /\ committed = <<1, 2>>
    /\ ThisList.gen = 3
    /\ ThisList.particleList = <<>>
    /\ Len(popped) >= 1
    /\ drained = <<>>
    /\ appTime = timeDecay

C17_EulerStep ==
    (pc = "drain" /\ Len(ThisList.particleList) = Len(OldList.particleList)) =>
        \A i \in 1..Len(OldList.particleList) :
            LET p == OldList.particleList[i].position
                q == ThisList.particleList[i].position
                x == p[1]
                y == p[2]
                z == p[3]
                x_dot == s * (y - x)
                y_dot == RoundDiv(x * (r - z), Scale) - y
                z_dot == RoundDiv(x * y, Scale) - RoundDiv(b * z, Scale)
            IN  /\ q = << x + RoundDiv(t * x_dot, Scale),
                          y + RoundDiv(t * y_dot, Scale),
                          z + RoundDiv(t * z_dot, Scale) >>
                /\ p = <<1000, 1000, 1000>> =>
                      /\ LorenzDot(p) = <<0, 26000, -1667>>
                      /\ q = <<1000, 1078, 995>>
                /\ p = <<3000, -1000, 2000>> => q = <<2880, -763, 1975>>
                /\ p = <<-1000, 2000, 0>> => q = <<-910, 1910, -6>>
                /\ p = <<-8000, 7000, 27000>> => q = <<-7550, 6955, 26616>>
                /\ p = <<20000, -20000, 19000>> => q = <<18800, -19400, 17648>>

\* the first tick has stepped a particle from (1,1,1)
C17_Witness ==
    /\ pc = "drain"
    /\ ticks = 0
    /\ Len(OldList.particleList) >= 1
    /\ Len(ThisList.particleList) = Len(OldList.particleList)
    /\ OldList.particleList[1].position = <<1000, 1000, 1000>>
    /\ ThisList.particleList[1].position = <<1000, 1078, 995>>

C19_FadeOrder ==
    (pc = "drain" /\ Len(ThisList.particleList) = Len(OldList.particleList)) =>
        \A i \in 1..Len(OldList.particleList) :
            LET c == OldList.particleList[i].color
                d == ThisList.particleList[i].color
            IN  /\ \A k \in 1..4 : d[k] \in 0..255
                /\ d[4] = c[4]
                /\ IF c[2] > 0 THEN d = [c EXCEPT ![2] = c[2] - 1]
                   ELSE IF c[1] > 0 THEN d = [c EXCEPT ![1] = c[1] - 1]
                   ELSE IF c[3] > 0 THEN d = [c EXCEPT ![3] = c[3] - 1]
                   ELSE d = c

\* the second tick has faded a colour whose channels were all 0 already
C19_Witness ==
    /\ pc = "drain"
    /\ ticks = 1
    /\ Len(OldList.particleList) >= 1
    /\ Len(ThisList.particleList) = Len(OldList.particleList)
    /\ OldList.particleList[1].color = <<0, 0, 0, 255>>
    /\ ThisList.particleList[1].color = <<0, 0, 0, 255>>
    /\ lockedCopy = EmptyParticleTimeList

\* C20: the drain removes the items one by one from the head of the queue
\* and appends each, once, to the list of its tick; it is left only when the
\* queue is found empty, so every item queued when the drain started is in
\* the list the tick posts; and with a bounded number of writes by the frame
\* thread the drain is left
C20_DrainComplete ==
    /\ [](pc \in {"drain", "read"} =>
            /\ Len(drained) <= Len(ThisList.particleList)
            /\ Suffix(ThisList.particleList, Len(drained)) = drained
            /\ Len(drained) <= Len(popped)
            /\ Suffix(popped, Len(drained)) = drained)
    /\ [][/\ DrainRead =>
               /\ inputParticles'.count = inputParticles.count - 1
               /\ drained' = Append(drained, pushed[Len(popped) + 1])
          /\ FinishUpdate =>
               /\ RingEmpty(inputParticles)
               /\ popped = pushed]_vars
    /\ (pc \in {"drain", "read"}) ~> (pc = "postNewValue")

\* the first tick has left its drain after reading two seeded particles
C20_Witness ==
    /\ pc = "postNewValue"
    /\ ticks = 0
    /\ Len(drained) = 2
    /\ popped = drained
    /\ Len(ThisList.particleList) = initParticleSize + 2

\* C21: the loop carries a particle of the previous list over only when its
\* expiry is strictly later than the time sampled for it; apart from the
\* items drained in the tick, the list being written holds nothing but
\* particles of the previous list, in their order, so a particle that was
\* left out is in no later list; the sampled time never runs backwards
C21_DroppedStaysDropped ==
    /\ [](pc \in {"loop", "drain", "read"} =>
            /\ Len(drained) <= Len(ThisList.particleList)
            /\ IsSubseq(Entries(ThisList, Len(ThisList.particleList) - Len(drained)),
                        CarriedOver(OldList, it - 1)))
    /\ [][(LoopStep /\ ThisList' # ThisList) => OldList.timeList[it] > appTime]_vars
    /\ [][appTime' >= appTime]_vars

\* the first tick found the initial particles expired and carried none over
C21_Witness ==
    /\ pc = "drain"
    /\ ticks = 0
    /\ it = initParticleSize + 1
    /\ drained = <<>>
    /\ ThisList.particleList = <<>>
    /\ appTime >= timeDecay

\* C22: an expiry is the time sampled at the particle's birth plus
\* timeDecay: the constructor's particles expire timeDecay after time 0, a
\* drained particle timeDecay after the time sampled at its read; the loop
\* carries an expiry over as it is and changes no expiry of the list it
\* reads
C22_ExpirySetOnce ==
    /\ [](\A x \in Slots :
            LET list == particleVertices.buffer[x]
            IN  \A i \in 1..Len(list.timeList) :
                    /\ list.timeList[i] >= timeDecay
                    /\ list.timeList[i] <= appTime + timeDecay
                    /\ list.gen = 1 => list.timeList[i] = timeDecay)
    /\ [][DrainRead =>
            ThisList'.timeList = Append(ThisList.timeList, appTime + timeDecay)]_vars
    /\ [][LoopStep =>
            /\ OldList' = OldList
            /\ \/ ThisList'.timeList = ThisList.timeList
               \/ ThisList'.timeList = Append(ThisList.timeList, OldList.timeList[it])]_vars

\* the second tick carried over, half a lifespan later, a constructor's
\* particle and a particle born in the first tick half a lifespan after
\* time 0: each still has the expiry of its birth
C22_Witness ==
    /\ pc = "drain"
    /\ ticks = 1
    /\ drained = <<>>
    /\ appTime = HalfStep
    /\ Len(ThisList.timeList) = initParticleSize + 1
    /\ ThisList.timeList[1] = timeDecay
    /\ ThisList.timeList[initParticleSize + 1] = HalfStep + timeDecay

\* C23: in the background thread startNewValue and postNewValue alternate:
\* a tick starts only when no earlier startNewValue awaits its post, posts
\* once, the slot it started, and requests the update of the frame thread
\* only after that post
C23_StartCommitAlternate ==
    /\ [](Outstanding <=> Writing)
    /\ [](Len(committed) = ticks + 1)
    /\ [][StartTick => (~Outstanding /\ Outstanding')]_vars
    /\ [][Post =>
            /\ Outstanding
            /\ ~Outstanding'
            /\ particleVertices'.posted = thisParticleTimeList
            /\ Len(committed') = Len(committed) + 1]_vars
    /\ [][RequestUpdate =>
            /\ ~Outstanding
            /\ committed[Len(committed)] = ThisList.gen]_vars

\* every tick has run, each with one post, and frame locked two of the
\* posted lists in between
C23_Witness ==
    /\ pc = "usleep"
    /\ ticks = MaxTicks
    /\ Len(committed) = MaxTicks + 1
    /\ Len(observed) = 2
    /\ ~Outstanding

C25_DisplacedSlotReused ==
    /\ [][Post =>
            /\ particleVertices'.posted = thisParticleTimeList
            /\ StartNewValue(particleVertices') = particleVertices.posted]_vars
    /\ [][~Post => StartNewValue(particleVertices') = StartNewValue(particleVertices)]_vars
    /\ [][StartTick => thisParticleTimeList' = StartNewValue(particleVertices)]_vars

\* the second tick has started after frame locked the list of the first
C25_Witness ==
    /\ pc = "loop"
    /\ ticks = 1
    /\ observed = <<1, 2>>
    /\ Outstanding
    /\ thisParticleTimeList # particleVertices.posted

\* C26: while nothing is written to the queue, a list posted later never
\* holds more particles than a list posted earlier; a particle whose expiry
\* the sampled time has reached is left out, and after an empty list every
\* later list is empty
C26_PopulationDecays ==
    /\ [](\A x, y \in Slots :
            LET from == particleVertices.buffer[x]
                to == particleVertices.buffer[y]
            IN  (from.gen >= 1 /\ to.gen > from.gen) =>
                    /\ Len(to.particleList) <= Len(from.particleList)
                    /\ from.particleList = <<>> => to.particleList = <<>>)
    /\ [](pc \in {"loop", "drain"} => Len(ThisList.particleList) <= it - 1)
    /\ [][(LoopStep /\ OldList.timeList[it] <= appTime) => ThisList' = ThisList]_vars

\* the constructor's particles expired before a tick, and the list of the
\* next tick is empty as well
C26_Witness ==
    /\ appTime >= timeDecay
    /\ \E x, y \in Slots :
          /\ particleVertices.buffer[x].gen = MaxTicks
          /\ particleVertices.buffer[y].gen = MaxTicks + 1
          /\ particleVertices.buffer[x].particleList = <<>>
          /\ particleVertices.buffer[y].particleList = <<>>

\* C27: while frame keeps being called, a committed generation g leads to
\* the frame thread holding a generation of at least g, and as long as no
\* further list is committed it leads to the frame thread holding the last
\* committed list
C27_ConsumerCatchesUp ==
    /\ \A g \in 1..(MaxTicks + 1) :
          (\E i \in 1..Len(committed) : committed[i] = g)
              ~> (vertexSource # NoSlot /\ observed # <<>> /\ observed[Len(observed)] >= g)
    /\ \A n \in 1..(MaxTicks + 1) :
          (Len(committed) = n)
              ~> \/ Len(committed) > n
                 \/ /\ Len(committed) = n
                    /\ vertexSource # NoSlot
                    /\ LockedList.gen = committed[n]
                    /\ lockedCopy = LockedList

\* the frame thread missed every earlier list and holds the last one
C27_Witness ==
    /\ ticks = MaxTicks
    /\ Len(committed) = MaxTicks + 1
    /\ observed = <<MaxTicks + 1>>
    /\ vertexSource # NoSlot
    /\ LockedList.gen = MaxTicks + 1

\* C28: whenever updateMesh is about to start, oldParticleList is the slot
\* posted last (still posted, or locked by frame since), it holds the last
\* committed list, and startNewValue returns another slot; the clear() at
\* the start of updateMesh and every step of the tick leave the input list
\* as it was, whenever frame locks
C28_InputNeverCleared ==
    /\ [](pc = "usleep" =>
            /\ oldParticleList =
                 IF particleVertices.fresh THEN particleVertices.posted
                 ELSE particleVertices.read
            /\ OldList.gen = committed[Len(committed)]
            /\ \A x \in Slots : particleVertices.buffer[x].gen <= OldList.gen
            /\ StartNewValue(particleVertices) # oldParticleList)
    /\ [][StartTick => /\ thisParticleTimeList' # oldParticleList
                       /\ oldParticleList' = oldParticleList
                       /\ OldList' = OldList]_vars
    /\ [][(pc \in {"loop", "drain", "read"} /\ pc' \in {"loop", "drain", "read"}) =>
            /\ oldParticleList' = oldParticleList
            /\ OldList' = OldList]_vars

\* the second tick starts after frame locked the list of the first: the
\* input is the slot frame reads, the cleared list is another slot
C28_Witness ==
    /\ pc = "loop"
    /\ it = 1
    /\ ticks = 1
    /\ observed = <<2>>
    /\ oldParticleList = particleVertices.read
    /\ ~particleVertices.fresh
    /\ OldList.gen = 2
    /\ ThisList.particleList = <<>>
    /\ thisParticleTimeList # oldParticleList

\* C29: the list the constructor posted holds initParticleSize initial
\* particles with their expiry times; until the first tick is committed it
\* is the list frame gets from a lock, frame never holds a slot nothing was
\* written to, and the first updateMesh reads that list
C29_InitialSnapshot ==
    /\ [](\A x \in Slots :
            particleVertices.buffer[x].gen = 1 =>
                /\ particleVertices.buffer[x].particleList \in
                       [1..initParticleSize -> InitParticles]
                /\ Len(particleVertices.buffer[x].timeList) = initParticleSize)
    /\ [](Len(committed) = 1 =>
            /\ committed = <<1>>
            /\ particleVertices.buffer[IF particleVertices.fresh
                                       THEN particleVertices.posted
                                       ELSE particleVertices.read].gen = 1
            /\ observed \in {<<>>, <<1>>})
    /\ [](vertexSource # NoSlot =>
            /\ LockedList.gen >= 1
            /\ observed # <<>>
            /\ observed[1] >= 1)
    /\ [][(StartTick /\ ticks = 0) =>
            /\ OldList.gen = 1
            /\ Len(OldList.particleList) = initParticleSize
            /\ OldList' = OldList]_vars

\* frame locked the constructor's list and the first tick reads it
C29_Witness ==
    /\ ticks = 0
    /\ pc = "loop"
    /\ observed = <<1>>
    /\ vertexSource = oldParticleList
    /\ OldList.gen = 1
    /\ lockedCopy = OldList
    /\ Len(lockedCopy.particleList) = initParticleSize

\* C30: in every slot, and in the list frame holds, particleList and
\* timeList have the same length; a step of updateMesh that changes the
\* list being written appends one particle and one time together, the time
\* being the expiry kept for that particle in the input list or, for a
\* drained particle, the expiry given to it
C30_ListsAligned ==
    /\ [](/\ \A x \in Slots :
                Len(particleVertices.buffer[x].particleList) =
                    Len(particleVertices.buffer[x].timeList)
          /\ Len(lockedCopy.particleList) = Len(lockedCopy.timeList))
    /\ [][(pc \in {"loop", "read"} /\ particleVertices'.buffer # particleVertices.buffer) =>
            /\ \A x \in Slots \ {thisParticleTimeList} :
                   particleVertices'.buffer[x] = particleVertices.buffer[x]
            /\ \/ /\ pc = "loop"
                  /\ ThisList'.particleList =
                        Append(ThisList.particleList,
                               UpdateParticle(OldList.particleList[it]))
                  /\ ThisList'.timeList = Append(ThisList.timeList, OldList.timeList[it])
               \/ /\ pc = "read"
                  /\ ThisList'.particleList =
                        Append(ThisList.particleList, RingFront(inputParticles))
                  /\ ThisList'.timeList = Append(ThisList.timeList, appTime + timeDecay)]_vars

\* a tick dropped the constructor's particle and drained a seeded one: the
\* list it posted holds one particle and that particle's expiry
C30_Witness ==
    /\ pc = "usleep"
    /\ ticks = 1
    /\ OldList.gen = 2
    /\ Len(popped) = 1
    /\ OldList.particleList = popped
    /\ OldList.timeList = <<timeDecay + timeDecay>>

\* C31: the background thread is at read() only with an item in the queue;
\* only its own read takes an item out, a push by the tool between the
\* test of empty() and the read never shrinks the queue, and the read
\* moves out an item that was pushed
C31_NeverReadsEmpty ==
    /\ [](pc = "read" => /\ ~RingEmpty(inputParticles)
                         /\ RingFront(inputParticles) # NoItem)
    /\ [][DrainCheck => ~RingEmpty(inputParticles')]_vars
    /\ [][(pc = "read" /\ ToolFrame) =>
            /\ pc' = "read"
            /\ inputParticles'.count >= inputParticles.count
            /\ RingFront(inputParticles') = RingFront(inputParticles)]_vars
    /\ [][inputParticles'.count < inputParticles.count =>
            /\ DrainRead
            /\ inputParticles'.count = inputParticles.count - 1]_vars

\* the tool filled the queue while the thread stands between the test of
\* empty() and its first read
C31_Witness ==
    /\ pc = "read"
    /\ drained = <<>>
    /\ popped = <<>>
    /\ RingFull(inputParticles)
    /\ Len(pushed) = RingBufferSize
    /\ seeds = MaxSeeds

\* C32: the locked value is read and the vertex buffer re-pointed only by
\* a frame whose lockNewValue returned true: every such step finds a value
\* posted since the last lock and points at the slot just locked; before
\* the first successful lock nothing was read, and there are never more
\* reads than posts
C32_ReadOnlyAfterLock ==
    /\ [][(vertexSource' # vertexSource \/ observed' # observed \/ lockedCopy' # lockedCopy) =>
            /\ Frame
            /\ LockResult(particleVertices)
            /\ postedSinceLock
            /\ ~LockResult(particleVertices')
            /\ vertexSource' = GetLockedValue(particleVertices')
            /\ Len(observed') = Len(observed) + 1]_vars
    /\ [](vertexSource = NoSlot <=> observed = <<>>)
    /\ [](vertexSource # NoSlot => vertexSource = GetLockedValue(particleVertices))
    /\ [](Len(observed) <= Len(committed))
    /\ [](~LockResult(particleVertices) =>
            /\ vertexSource = GetLockedValue(particleVertices)
            /\ lockedCopy = LockedList)

\* frame locked the constructor's list and the list of the first tick;
\* nothing was posted since, so a further frame leaves the vertex buffer
C32_Witness ==
    /\ pc = "usleep"
    /\ ticks = 1
    /\ observed = <<1, 2>>
    /\ ~LockResult(particleVertices)
    /\ ~postedSinceLock
    /\ vertexSource = GetLockedValue(particleVertices)

\* C33: the list updateMesh builds is, in this order, stepped particles of
\* the input list in their order there, then the items drained in this
\* tick, oldest first and exactly as they were pushed; that list is posted
\* as it stands
C33_SurvivorsThenDrained ==
    /\ [](pc \in {"loop", "drain", "read"} =>
            LET n == Len(ThisList.particleList) - Len(drained)
            IN  /\ n >= 0
                /\ Suffix(ThisList.particleList, Len(drained)) = drained
                /\ IsSubseq(SubSeq(ThisList.particleList, 1, n), Stepped(OldList, it - 1))
                /\ pc = "loop" => drained = <<>>)
    /\ [](/\ Len(drained) <= Len(popped)
          /\ Suffix(popped, Len(drained)) = drained
          /\ IsPrefix(popped, pushed))
    /\ [](pc \in {"postNewValue", "requestUpdate", "usleep"} =>
            /\ Len(drained) <= Len(OldList.particleList)
            /\ Suffix(OldList.particleList, Len(drained)) = drained)
    /\ [][LoopStep =>
            ThisList'.particleList =
                IF OldList.timeList[it] > appTime
                THEN Append(ThisList.particleList, UpdateParticle(OldList.particleList[it]))
                ELSE ThisList.particleList]_vars
    /\ [][DrainRead =>
            /\ ThisList'.particleList =
                  Append(ThisList.particleList, pushed[Len(popped) + 1])
            /\ drained' = Append(drained, pushed[Len(popped) + 1])]_vars
    /\ [][(FinishUpdate \/ Post) =>
            /\ ThisList'.particleList = ThisList.particleList
            /\ ThisList'.timeList = ThisList.timeList]_vars
    /\ [][Post => particleVertices'.posted = thisParticleTimeList]_vars

\* a tick carried the constructor's particle and then drained two seeded
\* particles in the order of their pushes
C33_Witness ==
    /\ pc = "drain"
    /\ RingEmpty(inputParticles)
    /\ Len(drained) = 2
    /\ drained = SubSeq(pushed, 1, 2)
    /\ drained[1] # drained[2]
    /\ Len(ThisList.particleList) = initParticleSize + 2
    /\ ThisList.particleList[1] = UpdateParticle(OldList.particleList[1])

\* C34: a step of updateMesh that carries a particle changes at most one of
\* its red, green and blue channels and leaves alpha alone; red is left
\* alone while green is positive, blue while green or red is positive; the
\* alpha of every particle in every list is 255
C34_OneChannelPerTick ==
    /\ [][(LoopStep /\ ThisList' # ThisList) =>
            LET c == OldList.particleList[it].color
                d == ThisList'.particleList[Len(ThisList'.particleList)].color
            IN  /\ Cardinality({k \in 1..3 : d[k] # c[k]}) <= 1
                /\ d[4] = c[4]
                /\ c[2] > 0 => d[1] = c[1]
                /\ (c[2] > 0 \/ c[1] > 0) => d[3] = c[3]]_vars
    /\ [](\A x \in Slots :
            \A i \in 1..Len(particleVertices.buffer[x].particleList) :
                particleVertices.buffer[x].particleList[i].color[4] = 255)

\* green was 0 and red positive: the tick lowered red and kept blue
C34_Witness ==
    /\ pc = "drain"
    /\ Len(OldList.particleList) = initParticleSize
    /\ Len(ThisList.particleList) = initParticleSize
    /\ OldList.particleList[1].color = <<1, 0, 40, 255>>
    /\ ThisList.particleList[1].color = <<0, 0, 40, 255>>

\* C35: in the variant with a fixed population there is one initial list
\* such that every list in the triple buffer of generation g is that list
\* after g - 1 ticks, whatever frame has locked; the k-th list committed
\* has generation k, the input of a tick is the list committed last, and a
\* step of frame changes neither a list nor the state of the thread
C35_ContentIndependentOfConsumer ==
    /\ [](\E ps \in [1..initParticleSize -> FixedInputs] :
            /\ \A x \in Slots :
                   particleVertices.buffer[x].gen >= 1 =>
                       particleVertices.buffer[x].particleList =
                           FixedOrbit(ps, particleVertices.buffer[x].gen - 1)
            /\ pc = "usleep" => OldList.particleList = FixedOrbit(ps, ticks))
    /\ [](OrbitsApart)
    /\ [](\A i \in 1..Len(committed) : committed[i] = i)
    /\ [](pc \in {"loop", "drain"} => OldList.gen = Len(committed))
    /\ [][Frame =>
            /\ particleVertices'.buffer = particleVertices.buffer
            /\ StartNewValue(particleVertices') = StartNewValue(particleVertices)
            /\ UNCHANGED <<simVars, committed>>]_vars
    /\ [][FinishUpdateFixed => ThisList.particleList = StepFixed(OldList.particleList)]_vars

\* every tick was committed while frame never locked a list
C35_Witness ==
    /\ pc = "usleep"
    /\ ticks = MaxTicks
    /\ observed = <<>>
    /\ vertexSource = NoSlot
    /\ OldList.gen = MaxTicks + 1
    /\ \E ps \in [1..initParticleSize -> FixedInputs] :
          /\ OldList.particleList = FixedOrbit(ps, MaxTicks)
          /\ OldList.particleList # ps

====
